---- MODULE Spec2Model ----
(***************************************************************************)
(* A model of package webpush (webpush.go): the flexible base64 codec, the *)
(* VAPID authorization header and Send.  Text is a sequence of one-        *)
(* character strings, bytes are integers 0..255.                           *)
(***************************************************************************)
EXTENDS Integers, Sequences, FiniteSets, TLC

(***************************************************************************)
(* Constants of webpush.go                                                 *)
(***************************************************************************)
maxRecordSize == 4096

headerLen == 86

minOverhead == 103

(* gcm.Overhead() of AES-128-GCM: the tag length cipher.NewGCM uses. *)
gcmOverhead == 16

(***************************************************************************)
(* Generic helpers on sequences                                            *)
(***************************************************************************)
Range(s) == {s[i] : i \in 1..Len(s)}

HasPrefix(s, p) == Len(s) >= Len(p) /\ SubSeq(s, 1, Len(p)) = p

(* s[from..], the Go slice expression s[from-1:] *)
Tail0(s, from) == SubSeq(s, from, Len(s))

(***************************************************************************)
(* encoding/base64: the four encodings b64Encoding chooses among           *)
(***************************************************************************)
Upper == <<"A","B","C","D","E","F","G","H","I","J","K","L","M",
           "N","O","P","Q","R","S","T","U","V","W","X","Y","Z">>

Lower == <<"a","b","c","d","e","f","g","h","i","j","k","l","m",
           "n","o","p","q","r","s","t","u","v","w","x","y","z">>

Digits == <<"0","1","2","3","4","5","6","7","8","9">>

encodeStd == Upper \o Lower \o Digits \o <<"+", "/">>

encodeURL == Upper \o Lower \o Digits \o <<"-", "_">>

Encodings == {"URLEncoding", "RawURLEncoding", "StdEncoding", "RawStdEncoding"}

Alphabet(enc) == IF enc \in {"URLEncoding", "RawURLEncoding"} THEN encodeURL ELSE encodeStd

Padded(enc) == enc \in {"URLEncoding", "StdEncoding"}

(* decodeMap of each alphabet: the index of a character of the alphabet *)
decodeMapStd == [c \in Range(encodeStd) |-> (CHOOSE i \in 1..64 : encodeStd[i] = c) - 1]

decodeMapURL == [c \in Range(encodeURL) |-> (CHOOSE i \in 1..64 : encodeURL[i] = c) - 1]

(* decodeMap[c]: 255 for a character that is not of the alphabet *)
DecodeMap(enc, c) ==
  LET m == IF enc \in {"URLEncoding", "RawURLEncoding"} THEN decodeMapURL ELSE decodeMapStd
  IN IF c \in DOMAIN m THEN m[c] ELSE 255

(* The 1-based alphabet index of the sextet of val at weight w *)
Sextet(val, w) == ((val \div w) % 64) + 1

(* Encoding.EncodeToString *)
RECURSIVE EncodeToString(_, _)
EncodeToString(enc, src) ==
  LET a == Alphabet(enc)
      n == Len(src)
  IN IF n = 0 THEN <<>>
     ELSE IF n >= 3 THEN
       LET val == src[1] * 65536 + src[2] * 256 + src[3]
       IN <<a[Sextet(val, 262144)], a[Sextet(val, 4096)],
            a[Sextet(val, 64)], a[Sextet(val, 1)]>>
          \o EncodeToString(enc, Tail0(src, 4))
     ELSE IF n = 2 THEN
       LET val == src[1] * 65536 + src[2] * 256
       IN <<a[Sextet(val, 262144)], a[Sextet(val, 4096)],
            a[Sextet(val, 64)]>>
          \o (IF Padded(enc) THEN <<"=">> ELSE <<>>)
     ELSE
       LET val == src[1] * 65536
       IN <<a[Sextet(val, 262144)], a[Sextet(val, 4096)]>>
          \o (IF Padded(enc) THEN <<"=", "=">> ELSE <<>>)

(* The bytes a quantum of dlen sextets holds (dlen - 1 of them) *)
QuantumBytes(dbuf, dlen) ==
  LET d(j) == IF j <= Len(dbuf) THEN dbuf[j] ELSE 0
      val == d(1) * 262144 + d(2) * 4096 + d(3) * 64 + d(4)
      b == <<(val \div 65536) % 256, (val \div 256) % 256, val % 256>>
  IN SubSeq(b, 1, dlen - 1)

IsNewline(c) == c \in {"\n", "\r"}

(* The index of the first character from si on that is no CR or LF *)
RECURSIVE SkipNewlines(_, _)
SkipNewlines(src, si) ==
  IF si <= Len(src) /\ IsNewline(src[si]) THEN SkipNewlines(src, si + 1) ELSE si

(* Encoding.decodeQuantum: src is read from index si (1-based), dbuf holds
   the sextets read so far; the result is [err, out, si]. *)
RECURSIVE DecodeQuantum(_, _, _, _)
DecodeQuantum(enc, src, si, dbuf) ==
  LET j == Len(dbuf)
  IN IF j = 4 THEN [err |-> FALSE, out |-> QuantumBytes(dbuf, 4), si |-> si]
     ELSE IF si > Len(src) THEN
       IF j = 0 THEN [err |-> FALSE, out |-> <<>>, si |-> si]
       ELSE IF j = 1 \/ Padded(enc) THEN [err |-> TRUE, out |-> <<>>, si |-> si]
       ELSE [err |-> FALSE, out |-> QuantumBytes(dbuf, j), si |-> si]
     ELSE
       LET in == src[si]
           out == DecodeMap(enc, in)
       IN IF out # 255 THEN DecodeQuantum(enc, src, si + 1, Append(dbuf, out))
          ELSE IF IsNewline(in) THEN DecodeQuantum(enc, src, si + 1, dbuf)
          ELSE IF ~Padded(enc) \/ in # "=" THEN [err |-> TRUE, out |-> <<>>, si |-> si + 1]
          ELSE IF j < 2 THEN [err |-> TRUE, out |-> <<>>, si |-> si + 1]
          ELSE
            LET s2 == IF j = 2 THEN SkipNewlines(src, si + 1) ELSE si + 1
            IN IF j = 2 /\ (s2 > Len(src) \/ src[s2] # "=")
               THEN [err |-> TRUE, out |-> <<>>, si |-> s2]
               ELSE
                 LET s3 == SkipNewlines(src, IF j = 2 THEN s2 + 1 ELSE s2)
                 IN [err |-> s3 <= Len(src), out |-> QuantumBytes(dbuf, j), si |-> s3]

(* Encoding.Decode: quantum after quantum until the input ends or one fails *)
RECURSIVE DecodeFrom(_, _, _, _)
DecodeFrom(enc, src, si, acc) ==
  IF si > Len(src) THEN [err |-> FALSE, out |-> acc]
  ELSE LET q == DecodeQuantum(enc, src, si, <<>>)
       IN IF q.err THEN [err |-> TRUE, out |-> acc \o q.out]
          ELSE DecodeFrom(enc, src, q.si, acc \o q.out)

(* Encoding.DecodeString *)
DecodeString(enc, s) == DecodeFrom(enc, s, 1, <<>>)

(***************************************************************************)
(* b64Encoding and b64Decode                                               *)
(***************************************************************************)
(* a scan that finds the URL alphabet unless + or / comes first *)
RECURSIVE scanURLUnlessStd(_, _)
scanURLUnlessStd(s, i) ==
  IF i > Len(s) THEN TRUE
  ELSE IF s[i] \in {"-", "_"} THEN TRUE
  ELSE IF s[i] \in {"+", "/"} THEN FALSE
  ELSE scanURLUnlessStd(s, i + 1)

(* The scan of b64Encoding: the first of - _ + / decides *)
RECURSIVE ScanIsURL(_, _)
ScanIsURL(s, i) ==
  IF i > Len(s) THEN FALSE
  ELSE IF s[i] \in {"-", "_"} THEN TRUE
  ELSE IF s[i] \in {"+", "/"} THEN FALSE
  ELSE ScanIsURL(s, i + 1)

(* a detection that takes every text for unpadded URL base64 *)
alwaysRawURL(s) == "RawURLEncoding"

b64Encoding(s) ==
  LET hasPadding == Len(s) > 0 /\ s[Len(s)] = "="
      isURL == ScanIsURL(s, 1)
  IN CASE isURL /\ hasPadding -> "URLEncoding"
       [] isURL /\ ~hasPadding -> "RawURLEncoding"
       [] ~isURL /\ hasPadding -> "StdEncoding"
       [] ~isURL /\ ~hasPadding -> "RawStdEncoding"

b64Decode(s) == DecodeString(b64Encoding(s), s)

(***************************************************************************)
(* Go values: int (64 bits) as q * 2^32 + r with 0 <= r < 2^32, byte       *)
(* slices as a backing array with a length                                 *)
(***************************************************************************)
Int64(q, r) == [q |-> q, r |-> r]

IsZeroInt(v) == v.q = 0 /\ v.r = 0

(* n > v - k for an int n >= 0 and a constant k <= v.r + 2^31 *)
GreaterThanMinus(n, v, k) ==
  IF v.q > 0 THEN FALSE
  ELSE IF v.q < 0 THEN TRUE
  ELSE n > v.r - k

(* the conversion uint32(v) *)
Uint32(v) == v.r

Zeros(n) == SubSeq([i \in 1..n |-> 0], 1, n)

(* make([]byte, len, cap) *)
MakeBuf(len, cap) == [arr |-> Zeros(cap), len |-> len]

Cap(b) == Len(b.arr)

BufBytes(b) == SubSeq(b.arr, 1, b.len)

(* append(b, bytes...): in place while the capacity allows, else a copy *)
AppendBuf(b, bytes) ==
  LET n == Len(bytes)
  IN IF b.len + n <= Cap(b)
     THEN [arr |-> SubSeq(b.arr, 1, b.len) \o bytes \o SubSeq(b.arr, b.len + n + 1, Cap(b)),
           len |-> b.len + n]
     ELSE [arr |-> BufBytes(b) \o bytes, len |-> b.len + n]

(* the same four bytes, the least significant first *)
littleEndianAppendUint32(b, u) ==
  AppendBuf(b, <<u % 256, (u \div 256) % 256, (u \div 65536) % 256, (u \div 16777216) % 256>>)

(* binary.BigEndian.AppendUint32(b, u) *)
AppendUint32(b, u) ==
  AppendBuf(b, <<(u \div 16777216) % 256, (u \div 65536) % 256, (u \div 256) % 256, u % 256>>)

(* the conversion byte(n) *)
ToByte(n) == n % 256

(***************************************************************************)
(* The cryptographic primitives Send calls (crypto/rand, crypto/ecdh,      *)
(* x/crypto/hkdf, crypto/aes, crypto/cipher), by their shape: lengths,     *)
(* what each output depends on, and when each fails.  Digest stands for    *)
(* the mixing they do.                                                     *)
(***************************************************************************)
RECURSIVE DigestRange(_, _, _)
DigestRange(s, lo, hi) ==
  IF lo > hi THEN 7
  ELSE IF lo = hi THEN ((s[lo] * 31) + lo) % 65521
  ELSE LET mid == (lo + hi) \div 2
       IN ((DigestRange(s, lo, mid) * 131) + DigestRange(s, mid + 1, hi)) % 65521

Digest(s) == DigestRange(s, 1, Len(s))

(* io.ReadFull(rand.Reader, salt): the 16 bytes the source yields on draw seed *)
SaltBytes(seed) == [i \in 1..16 |-> ((seed * 16) + i) % 256]

(* PrivateKey.PublicKey().Bytes(): the uncompressed point, 0x04 and 64 bytes *)
PublicKeyBytes(priv) == <<4>> \o [i \in 1..64 |-> ((priv * 64) + (i * 3)) % 256]

(* hkdfExpand *)
hkdfExpand(length, secret, salt, info) ==
  LET d == Digest(secret \o <<256>> \o salt \o <<257>> \o info)
  IN [i \in 1..length |-> ((d * 3) + (i * 41)) % 256]

(* AEAD.Seal of AES-128-GCM without associated data: a ciphertext as long as
   the plaintext, then the tag of gcmOverhead bytes *)
SealBytes(key, nonce, plaintext) ==
  LET k == Digest(key \o <<256>> \o nonce)
      n == Len(plaintext)
      ct == SubSeq([i \in 1..n |-> (plaintext[i] + k + (i * 17)) % 256], 1, n)
      t == Digest(<<k>> \o ct)
  IN ct \o [j \in 1..gcmOverhead |-> (t + (j * 29)) % 256]

(* gcm.Seal(record[from:from], nonce, record[from:to], nil) on the buffer b:
   the result is appended to the empty slice at from, so it lands in b's own
   array when it fits its capacity, and in a new array otherwise *)
(* a seal that writes its output from the start of the buffer *)
sealOverHeader(b, from, to, key, nonce) ==
  LET out == SealBytes(key, nonce, SubSeq(b.arr, from + 1, to))
  IN [b EXCEPT !.arr = out \o SubSeq(b.arr, Len(out) + 1, Cap(b))]

SealInPlace(b, from, to, key, nonce) ==
  LET out == SealBytes(key, nonce, SubSeq(b.arr, from + 1, to))
  IN IF Len(out) <= Cap(b) - from
     THEN [b EXCEPT !.arr = SubSeq(b.arr, 1, from) \o out
                            \o SubSeq(b.arr, from + Len(out) + 1, Cap(b))]
     ELSE b

(***************************************************************************)
(* strings, strconv, time                                                  *)
(***************************************************************************)
(* strings.Index: the 1-based index of the first c in s, 0 when there is none *)
RECURSIVE IndexFrom(_, _, _)
IndexFrom(s, c, i) ==
  IF i > Len(s) THEN 0 ELSE IF s[i] = c THEN i ELSE IndexFrom(s, c, i + 1)

Index(s, c) == IndexFrom(s, c, 1)

RECURSIVE LastIndexFrom(_, _, _)
LastIndexFrom(s, c, i) ==
  IF i < 1 THEN 0 ELSE IF s[i] = c THEN i ELSE LastIndexFrom(s, c, i - 1)

LastIndex(s, c) == LastIndexFrom(s, c, Len(s))

Contains(s, c) == Index(s, c) # 0

Count(s, c) == Cardinality({i \in 1..Len(s) : s[i] = c})

(* strings.Cut *)
Cut(s, c) ==
  LET i == Index(s, c)
  IN IF i = 0 THEN [before |-> s, after |-> <<>>, found |-> FALSE]
     ELSE [before |-> SubSeq(s, 1, i - 1), after |-> Tail0(s, i + 1), found |-> TRUE]

(* strings.ToLower on ASCII *)
ToLower(s) ==
  [i \in 1..Len(s) |->
     IF s[i] \in Range(Upper) THEN Lower[CHOOSE k \in 1..26 : Upper[k] = s[i]] ELSE s[i]]

IsLetter(c) == c \in Range(Upper) \cup Range(Lower)

IsDigit(c) == c \in Range(Digits)

(* strconv.Itoa *)
RECURSIVE Utoa(_)
Utoa(n) == IF n < 10 THEN <<Digits[n + 1]>> ELSE Append(Utoa(n \div 10), Digits[(n % 10) + 1])

Itoa(n) == IF n < 0 THEN <<"-">> \o Utoa(-n) ELSE Utoa(n)

(* a time.Duration: its sign, and the whole seconds and the nanoseconds
   (below 10^9) of its magnitude *)
Duration(neg, sec, nsec) == [neg |-> neg, sec |-> sec, nsec |-> nsec]

(* the binary exponent of float64(n), 2^24 <= n < 2^31 *)
Exponent(n) == CHOOSE e \in 24..30 : n \div (2^e) = 1

(* Duration.Seconds() is float64(sec) + float64(nsec)/1e9.  The sum is
   rounded to a float64, and from 2^24 seconds on these lie 2^(e-52) apart:
   it is rounded to sec + 1 when it lies less than 2^(e-53) below it *)
RoundsToNext(sec, nsec) ==
  /\ sec >= 2^24
  /\ nsec > 0
  /\ 1000000000 - nsec <= 999999999 \div (2^(53 - Exponent(sec)))

(* int(d.Seconds()): the float64 of Seconds, towards zero *)
WholeSeconds(d) ==
  IF d.neg THEN -(IF RoundsToNext(d.sec, d.nsec) THEN d.sec + 1 ELSE d.sec)
  ELSE IF RoundsToNext(d.sec, d.nsec) THEN d.sec + 1 ELSE d.sec

(* time.Time: the zero Time, or a unix time in seconds *)
ZeroTime == [zero |-> TRUE, unix |-> 0]

UnixTime(sec) == [zero |-> FALSE, unix |-> sec]

(* time.Hour * 12, in seconds *)
TwelveHours == 43200

(***************************************************************************)
(* net/url: Parse, for URLs without userinfo, IPv6 literal or % escape     *)
(***************************************************************************)
(* getScheme *)
RECURSIVE getSchemeFrom(_, _)
getSchemeFrom(rawURL, i) ==
  LET none == [err |-> FALSE, scheme |-> <<>>, rest |-> rawURL]
  IN IF i > Len(rawURL) THEN none
     ELSE LET c == rawURL[i]
          IN IF IsLetter(c) THEN getSchemeFrom(rawURL, i + 1)
             ELSE IF IsDigit(c) \/ c \in {"+", "-", "."}
               THEN IF i = 1 THEN none ELSE getSchemeFrom(rawURL, i + 1)
             ELSE IF c = ":"
               THEN IF i = 1 THEN [err |-> TRUE, scheme |-> <<>>, rest |-> <<>>]
                    ELSE [err |-> FALSE, scheme |-> SubSeq(rawURL, 1, i - 1),
                          rest |-> Tail0(rawURL, i + 1)]
             ELSE none

getScheme(rawURL) == getSchemeFrom(rawURL, 1)

(* validOptionalPort *)
validOptionalPort(port) ==
  \/ port = <<>>
  \/ /\ port[1] = ":"
     /\ \A i \in 2..Len(port) : IsDigit(port[i])

(* parseHost, for a host that is no IPv6 literal *)
parseHost(host) ==
  LET i == LastIndex(host, ":")
  IN [err |-> i # 0 /\ ~validOptionalPort(Tail0(host, i)), host |-> host]

NoURL == [Scheme |-> <<>>, Opaque |-> <<>>, Host |-> <<>>, Path |-> <<>>,
          RawQuery |-> <<>>, Fragment |-> <<>>]

(* parse, from the authority on: a is the cut of what follows "//" at the
   first "/", h the parsed host *)
parseAuthority(scheme, rawQuery, a, h) ==
  IF h.err THEN [err |-> TRUE, url |-> NoURL]
  ELSE [err |-> FALSE,
        url |-> [NoURL EXCEPT !.Scheme = scheme, !.Host = h.host,
                              !.Path = IF a.found THEN <<"/">> \o a.after ELSE <<>>,
                              !.RawQuery = rawQuery]]

(* parse, once the scheme and the query are split off *)
parseRest(scheme, rest, rawQuery) ==
  IF ~HasPrefix(rest, <<"/">>) /\ scheme # <<>>
  THEN [err |-> FALSE,
        url |-> [NoURL EXCEPT !.Scheme = scheme, !.Opaque = rest, !.RawQuery = rawQuery]]
  ELSE IF ~HasPrefix(rest, <<"/">>) /\ Contains(Cut(rest, "/").before, ":")
  THEN [err |-> TRUE, url |-> NoURL]
  ELSE IF /\ HasPrefix(rest, <<"/", "/">>)
          /\ (scheme # <<>> \/ ~HasPrefix(rest, <<"/", "/", "/">>))
  THEN parseAuthority(scheme, rawQuery, Cut(Tail0(rest, 3), "/"),
                      parseHost(Cut(Tail0(rest, 3), "/").before))
  ELSE [err |-> FALSE,
        url |-> [NoURL EXCEPT !.Scheme = scheme, !.Path = rest, !.RawQuery = rawQuery]]

(* parse, once the scheme is split off: a lone "?" at the end is dropped,
   else the query is what follows the first "?" *)
parseQuery(scheme, rest) ==
  IF Len(rest) > 0 /\ rest[Len(rest)] = "?" /\ Count(rest, "?") = 1
  THEN parseRest(scheme, SubSeq(rest, 1, Len(rest) - 1), <<>>)
  ELSE parseRest(scheme, Cut(rest, "?").before, Cut(rest, "?").after)

(* parse, given what getScheme returns *)
parseScheme(sch) ==
  IF sch.err THEN [err |-> TRUE, url |-> NoURL]
  ELSE parseQuery(ToLower(sch.scheme), sch.rest)

(* parse(rawURL, viaRequest = false) *)
parseURL(rawURL) == parseScheme(getScheme(rawURL))

(* url.Parse, once the fragment is cut off *)
setFragment(r, frag) == IF r.err THEN r ELSE [r EXCEPT !.url.Fragment = frag]

(* url.Parse *)
UrlParse(rawURL) == setFragment(parseURL(Cut(rawURL, "#").before), Cut(rawURL, "#").after)

(***************************************************************************)
(* Errors                                                                  *)
(***************************************************************************)
NoErr == "nil"

ErrInvalidSubscription == "webpush: invalid subscription, missing endpoint or keys"

ErrTooLong == "webpush: message length is too long for record size"

ErrInvalidAuth == "webpush: invalid auth in key"

ErrInvalidPublicKey == "webpush: invalid public key"

ErrInvalidUrgency == "webpush: invalid urgency"

ErrInvalidEndpoint == "webpush: invalid endpoint"

ErrInvalidSubscriber == "webpush: invalid subscriber"

(* errors of the libraries, returned as they are *)
ErrRand == "rand: read failed"

ErrECDHPublicKey == "crypto/ecdh: invalid public key"

ErrPointEncoding == "invalid P256 point encoding"

ErrNotOnCurve == "P256 point not on curve"

ErrURLParse == "net/url: parse error"

ErrSign == "jwt: signing failed"

ErrCanceled == "context canceled"

ErrTransport == "transport error"

(***************************************************************************)
(* Urgency                                                                 *)
(***************************************************************************)
UrgencyVeryLow == "very-low"

UrgencyLow == "low"

UrgencyNormal == "normal"

UrgencyHigh == "high"

(* a predicate that leaves out the lowest level *)
threeLevels(u) == u \in {UrgencyLow, UrgencyNormal, UrgencyHigh}

(* a predicate that takes every urgency *)
anyUrgency(u) == TRUE

isValid(u) == u \in {UrgencyVeryLow, UrgencyLow, UrgencyNormal, UrgencyHigh}

(***************************************************************************)
(* makeAuthHeader.  A VAPID key is its private scalar; sigDraw is what the *)
(* signature draws from the random source, RandFail when the draw fails.   *)
(***************************************************************************)
RandFail == -1

(* Token.SignedString with jwt.SigningMethodES256: the signed token, as its
   three parts *)
SignedString(claims, vapidKey, sigDraw) ==
  IF sigDraw = RandFail THEN [err |-> ErrSign, jwt |-> <<>>]
  ELSE [err |-> NoErr,
        jwt |-> [header |-> [alg |-> "ES256", typ |-> "JWT"],
                 claims |-> claims,
                 signature |-> [key |-> vapidKey, over |-> claims, k |-> sigDraw]]]

NoHeader == [header |-> <<>>, err |-> NoErr, signed |-> FALSE]

(* a check of the scheme alone *)
schemeMissing(subURL) == subURL.Scheme = <<>>

(* an endpoint makeAuthHeader accepts has a scheme and a host *)
EndpointInvalid(subURL) == subURL.Scheme = <<>> \/ subURL.Host = <<>>

SubscriberInvalid(subscriber) ==
  /\ ~HasPrefix(subscriber, <<"h","t","t","p","s",":">>)
  /\ ~HasPrefix(subscriber, <<"m","a","i","l","t","o",":">>)

(* an audience that keeps the path *)
audienceWithPath(subURL) == subURL.Scheme \o <<":","/","/">> \o subURL.Host \o subURL.Path

(* the "aud" claim *)
Audience(subURL) == subURL.Scheme \o <<":","/","/">> \o subURL.Host

(* lines 165-177: the header, given what SignedString returns *)
signedHeader(signed, vapidKey) ==
  IF signed.err # NoErr THEN [NoHeader EXCEPT !.err = signed.err, !.signed = TRUE]
  ELSE [header |-> <<"vapid t=", signed.jwt, ", k=",
                     EncodeToString("RawURLEncoding", PublicKeyBytes(vapidKey))>>,
        err |-> NoErr, signed |-> TRUE]

(* lines 147-177: makeAuthHeader, given what url.Parse returns *)
authHeader(parsed, subscriber, vapidKey, expiration, sigDraw) ==
  IF parsed.err THEN [NoHeader EXCEPT !.err = ErrURLParse]
  ELSE IF EndpointInvalid(parsed.url) THEN [NoHeader EXCEPT !.err = ErrInvalidEndpoint]
  ELSE IF SubscriberInvalid(subscriber) THEN [NoHeader EXCEPT !.err = ErrInvalidSubscriber]
  ELSE signedHeader(SignedString([aud |-> Audience(parsed.url), exp |-> expiration.unix,
                                  sub |-> subscriber], vapidKey, sigDraw),
                    vapidKey)

makeAuthHeader(endpoint, subscriber, vapidKey, expiration, sigDraw) ==
  authHeader(UrlParse(endpoint), subscriber, vapidKey, expiration, sigDraw)

(***************************************************************************)
(* Send, step by step.  Each operator is what a stretch of Send computes   *)
(* from the values it reads.                                               *)
(***************************************************************************)
(* lines 219-222 *)
EffectiveRecordSize(conf) ==
  IF IsZeroInt(conf.RecordSize) THEN Int64(0, maxRecordSize) ELSE conf.RecordSize

(* a check of the endpoint alone *)
endpointMissing(s) == s.Endpoint = <<>>

(* line 224 *)
SubscriptionIncomplete(s) ==
  s.Endpoint = <<>> \/ s.Keys.Auth = <<>> \/ s.Keys.P256dh = <<>>

(* a bound one byte tighter *)
messageAtBound(message, recordSize) ==
  GreaterThanMinus(Len(message) + 1, recordSize, minOverhead)

(* line 229 *)
MessageTooLong(message, recordSize) ==
  GreaterThanMinus(Len(message), recordSize, minOverhead)

(* lines 224-233: the error of the two first checks, and the checks made *)
ValidateStep(message, s, conf) ==
  IF SubscriptionIncomplete(s)
  THEN [err |-> ErrInvalidSubscription, did |-> <<"subscription">>]
  ELSE IF MessageTooLong(message, EffectiveRecordSize(conf))
  THEN [err |-> ErrTooLong, did |-> <<"subscription", "length">>]
  ELSE [err |-> NoErr, did |-> <<"subscription", "length">>]

(* lines 235-243 *)
DecodeKeysStep(keys) ==
  LET auth == b64Decode(keys.Auth)
      ua == b64Decode(keys.P256dh)
  IN IF auth.err
     THEN [err |-> ErrInvalidAuth, authSecret |-> <<>>, userAgentPublicKeyBytes |-> <<>>,
           did |-> <<"b64Decode auth">>]
     ELSE IF ua.err
     THEN [err |-> ErrInvalidPublicKey, authSecret |-> auth.out,
           userAgentPublicKeyBytes |-> <<>>, did |-> <<"b64Decode auth", "b64Decode p256dh">>]
     ELSE [err |-> NoErr, authSecret |-> auth.out, userAgentPublicKeyBytes |-> ua.out,
           did |-> <<"b64Decode auth", "b64Decode p256dh">>]

(* The subscriber key of the tests, and the points of P-256 the model knows:
   it, and the public keys of the private keys the random source yields *)
TestP256dh == <<"B","O","a","R","p","S","C","t","j","s","B","9","2","Y","o","u","Z","n","j","8","i","N","g","C","d","F","D","N","V","N","b","i","d","4","0","A","G","x","L","c","R","4","7","D","I","1","S","-","z","Q","k","Y","f","1","C","D","G","2","G","4","y","9","G","X","e","g","7","4","-","8","U","_","m","E","M","z","S","Z","c","-","m","R","F","_","X","0","Y">>

TestPoint == DecodeString("RawURLEncoding", TestP256dh).out

KeySeeds == {1, 2}

OnCurve(bytes) == bytes = TestPoint \/ \E k \in KeySeeds : bytes = PublicKeyBytes(k)

(* ecdh.P256().NewPublicKey: whether it fails *)
NewPublicKeyFails(bytes) ==
  ~(Len(bytes) = 65 /\ bytes[1] = 4 /\ OnCurve(bytes))

(* ecdh.P256().NewPublicKey: the error it fails with. A first byte other
   than 4 is refused by crypto/ecdh, the rest by the point decoder. *)
NewPublicKeyError(bytes) ==
  IF Len(bytes) = 0 \/ bytes[1] # 4 THEN ErrECDHPublicKey
  ELSE IF Len(bytes) # 65 THEN ErrPointEncoding
  ELSE ErrNotOnCurve

(* PrivateKey.ECDH *)
ECDH(priv, pub) ==
  LET d == Digest(<<priv>> \o pub)
  IN [i \in 1..32 |-> (d + (i * 5)) % 256]

(* lines 300-314: the record buffer *)
BuildRecord(message, recordSize, salt, appServerPublicKeyBytes, contentEncryptionKey, nonce) ==
  LET r0 == MakeBuf(0, minOverhead + Len(message))
      r1 == AppendBuf(r0, salt)
      r2 == AppendUint32(r1, Uint32(recordSize))
      r3 == AppendBuf(r2, <<ToByte(Len(appServerPublicKeyBytes))>>)
      r4 == AppendBuf(r3, appServerPublicKeyBytes)
      r5 == AppendBuf(r4, message)
      r6 == AppendBuf(r5, <<2>>)
      r7 == SealInPlace(r6, headerLen, Cap(r6) - gcmOverhead, contentEncryptionKey, nonce)
  IN [r7 EXCEPT !.len = Cap(r7)]

(* lines 257-314 *)
SealStep(message, recordSize, salt, authSecret, userAgentPublicKeyBytes, priv, infos) ==
  LET appServerPublicKeyBytes == PublicKeyBytes(priv)
      sharedSecret == ECDH(priv, userAgentPublicKeyBytes)
      keyInfo == infos.webPushInfo \o userAgentPublicKeyBytes \o appServerPublicKeyBytes
      ikm == hkdfExpand(32, sharedSecret, authSecret, keyInfo)
      contentEncryptionKey == hkdfExpand(16, ikm, salt, infos.contentEncryptionKeyInfo)
      nonce == hkdfExpand(12, ikm, salt, infos.nonceInfo)
  IN IF NewPublicKeyFails(userAgentPublicKeyBytes)
     THEN [err |-> NewPublicKeyError(userAgentPublicKeyBytes), record |-> MakeBuf(0, 0), did |-> <<"NewPublicKey">>]
     ELSE [err |-> NoErr,
           record |-> BuildRecord(message, recordSize, salt, appServerPublicKeyBytes,
                                  contentEncryptionKey, nonce),
           did |-> <<"NewPublicKey", "ECDH", "hkdfExpand", "Seal">>]

(* textproto.CanonicalMIMEHeaderKey, on the names Send sets *)
CanonicalKey(k) == IF k = "TTL" THEN "Ttl" ELSE k

(* Header.Set *)
SetHeader(h, key, value) ==
  [k \in DOMAIN h \cup {CanonicalKey(key)} |-> IF k = CanonicalKey(key) THEN value ELSE h[k]]

NoHeaders == [k \in {} |-> ""]

(* line 316: http.NewRequest binds the request to context.Background() *)
NewRequestContext(ctx) == "background"

(* lines 316-333 *)
RequestStep(ctx, s, conf, body) ==
  LET parsed == UrlParse(s.Endpoint)
      h1 == SetHeader(NoHeaders, "Content-Encoding", "aes128gcm")
      h2 == SetHeader(h1, "Content-Type", "application/octet-stream")
      h3 == SetHeader(h2, "TTL", Itoa(WholeSeconds(conf.TTL)))
      h4 == IF conf.Topic # "" THEN SetHeader(h3, "Topic", conf.Topic) ELSE h3
      h5 == IF conf.Urgency # "" THEN SetHeader(h4, "Urgency", conf.Urgency) ELSE h4
      req == [Method |-> "POST", URL |-> s.Endpoint, ctx |-> NewRequestContext(ctx),
              Header |-> h5, Body |-> body]
  IN IF parsed.err
     THEN [err |-> ErrURLParse, req |-> req, did |-> <<"http.NewRequest">>]
     ELSE IF conf.Urgency # "" /\ ~isValid(conf.Urgency)
     THEN [err |-> ErrInvalidUrgency, req |-> req, did |-> <<"http.NewRequest", "urgency">>]
     ELSE [err |-> NoErr, req |-> req, did |-> <<"http.NewRequest", "urgency">>]

(* lines 335-338 *)
Expiration(conf, now) ==
  IF conf.VAPIDExpiration.zero THEN UnixTime(now + TwelveHours) ELSE conf.VAPIDExpiration

(* lines 341-349: the error is returned, or the header set *)
setAuthorization(req, r) ==
  IF r.err # NoErr THEN [err |-> r.err, req |-> req, signed |-> r.signed]
  ELSE [err |-> NoErr, req |-> [req EXCEPT !.Header = SetHeader(@, "Authorization", r.header)],
        signed |-> TRUE]

(* lines 335-349 *)
AuthStep(s, conf, req, now, sigDraw) ==
  setAuthorization(req, makeAuthHeader(s.Endpoint, conf.Subscriber, conf.VAPIDKey,
                                       Expiration(conf, now), sigDraw))

(* Client.Do(req), as far as Send depends on it: a request whose context is
   done is refused with the context's error; any other gets the push
   service's response or the transport's error *)
ClientDoOutcomes(ctxDone) ==
  IF ctxDone THEN {[resp |-> 0, err |-> ErrCanceled]}
  ELSE {[resp |-> 201, err |-> NoErr], [resp |-> 410, err |-> NoErr],
        [resp |-> 0, err |-> ErrTransport]}

(***************************************************************************)
(* State                                                                   *)
(*   pc, args, loc, ret, trace, sent, cancelled: one Send call per caller  *)
(*   mem: the byte buffers the calls allocate, by address                  *)
(*   pkg: the package-level variables of webpush.go                        *)
(*   b64: one run of the codec; hdr: one direct call of makeAuthHeader     *)
(*   vk: one run of GenerateVAPIDKey and ParseVAPIDKey                     *)
(*   urg: one call of Urgency.isValid                                      *)
(***************************************************************************)
VARIABLES pc, args, loc, ret, trace, sent, cancelled, mem, pkg, b64, hdr, vk, urg

vars == <<pc, args, loc, ret, trace, sent, cancelled, mem, pkg, b64, hdr, vk, urg>>

sendVars == <<pc, args, loc, ret, trace, sent, cancelled, mem, pkg>>

(***************************************************************************)
(* The values the calls are made with                                      *)
(***************************************************************************)
EndpointOK == <<"h","t","t","p","s",":","/","/","h","/","p">>

EndpointQuery == <<"H","T","T","P","S",":","/","/","h","/","p","?","q","#","f">>

EndpointPort == <<"h","t","t","p","s",":","/","/","h",":","8","/","p">>

EndpointNoPath == <<"h","t","t","p","s",":","/","/","h">>

EndpointNoScheme == <<"/","/","h","/","p">>

EndpointNoHost == <<"h","t","t","p","s",":","/","p">>

EndpointRelative == <<"h","/","p">>

EndpointOpaque == <<"m","a","i","l","t","o",":","x">>

EndpointBadScheme == <<":","x">>

EndpointBadPort == <<"h","t","t","p","s",":","/","/","h",":","x","/","p">>

SubscriberHTTPS == <<"h","t","t","p","s",":","/","/","a">>

SubscriberMailto == <<"m","a","i","l","t","o",":","a">>

SubscriberHTTP == <<"h","t","t","p",":","/","/","a">>

SubscriberBare == <<"h","t","t","p","s">>

TestAuth == <<"R","W","2","w","U","i","D","E","K","N","z","S","y","D","x","l","g","7","A","r","b","Q">>

TestAuthPadded == <<"R","W","2","w","U","i","D","E","K","N","z","S","y","D","x","l","g","7","A","r","b","Q","=","=">>

NotBase64 == <<"{","}">>

NotAPoint == <<"A","Q">>

(* 65 bytes in the uncompressed form, of a point that is not on the curve *)
OffCurve == EncodeToString("RawURLEncoding", <<4, 15, 190>> \o Zeros(62))

TestP256dhStd == <<"B","O","a","R","p","S","C","t","j","s","B","9","2","Y","o","u","Z","n","j","8","i","N","g","C","d","F","D","N","V","N","b","i","d","4","0","A","G","x","L","c","R","4","7","D","I","1","S","+","z","Q","k","Y","f","1","C","D","G","2","G","4","y","9","G","X","e","g","7","4","+","8","U","/","m","E","M","z","S","Z","c","+","m","R","F","/","X","0","Y","=">>

Endpoints == {<<>>, EndpointOK, EndpointQuery, EndpointPort, EndpointNoPath, EndpointNoScheme,
              EndpointNoHost, EndpointRelative, EndpointOpaque, EndpointBadScheme,
              EndpointBadPort}

Subscribers == {<<>>, SubscriberHTTPS, SubscriberMailto, SubscriberHTTP, SubscriberBare}

(* the time of the snapshot tests *)
GoldTime == UnixTime(1431486900)

Expirations == {ZeroTime, GoldTime}

(* time.Now(), in unix seconds *)
Nows == {1700000000, 1700000001}

VapidKeys == {7, 8}

SaltSeeds == {1, 2}

SigSeeds == {1}

(* a message of n bytes *)
Message(n) == SubSeq([i \in 1..n |-> (64 + i) % 256], 1, n)

MaxMsgLen == 2

MsgLens == 0..MaxMsgLen

(* the longest message the default record size takes, and the next *)
LongMsgLens == {maxRecordSize - minOverhead, (maxRecordSize - minOverhead) + 1}

RecordSizes == {Int64(0, 0), Int64(0, 1), Int64(0, minOverhead + 1), Int64(1, minOverhead + 1),
                Int64(-1, minOverhead + 1)}

Urgencies == {"", UrgencyHigh, "invalid"}

(* no time, a second and a half, an hour, and a nanosecond less than
   2^24 + 1 seconds *)
TTLs == {Duration(FALSE, 0, 0), Duration(FALSE, 1, 500000000), Duration(FALSE, 3600, 0),
         Duration(FALSE, 16777216, 999999999)}

BaseConf == [Client |-> "client", VAPIDKey |-> 7, Subscriber |-> SubscriberHTTPS,
             TTL |-> Duration(FALSE, 3600, 0), Topic |-> "", Urgency |-> "", RecordSize |-> Int64(0, 0),
             VAPIDExpiration |-> GoldTime]

(* &Config{}, but for the record size *)
EmptyConf == [Client |-> "nil", VAPIDKey |-> 0, Subscriber |-> <<>>, TTL |-> Duration(FALSE, 0, 0), Topic |-> "",
              Urgency |-> "", RecordSize |-> Int64(0, 0), VAPIDExpiration |-> ZeroTime]

(***************************************************************************)
(* Send as a state machine: one call per caller at a time                  *)
(***************************************************************************)
Procs == {1, 2}

(* one salt buffer for every caller *)
sharedSaltAddr(p) == <<1, "salt">>

SaltAddr(p) == <<p, "salt">>

RecordAddr(p) == <<p, "record">>

(* the backing array of the message the caller passes *)
MessageAddr(p) == <<p, "message">>

Addrs == {SaltAddr(p) : p \in Procs} \cup {RecordAddr(p) : p \in Procs}
           \cup {MessageAddr(p) : p \in Procs}

NoArgs == [ctx |-> "background", message |-> <<>>,
           s |-> [Endpoint |-> <<>>, Keys |-> [Auth |-> <<>>, P256dh |-> <<>>]],
           conf |-> BaseConf]

NoReq == [Method |-> "", URL |-> <<>>, ctx |-> "background", Header |-> NoHeaders,
          Body |-> <<0, "none">>]

NoLoc == [recordSize |-> Int64(0, 0), authSecret |-> <<>>, userAgentPublicKeyBytes |-> <<>>,
          saltDraw |-> 0, appServerPrivateKey |-> 0, expiration |-> ZeroTime, sigDraw |-> 0,
          req |-> NoReq]

NoRet == [resp |-> 0, err |-> NoErr]

PkgInit == [webPushInfo |-> <<87, 101, 98, 80, 117, 115, 104, 58, 32, 105, 110, 102, 111, 0>>,
            contentEncryptionKeyInfo |-> <<67, 111, 110, 116, 101, 110, 116, 45, 69, 110, 99,
                                           111, 100, 105, 110, 103, 58, 32, 97, 101, 115, 49,
                                           50, 56, 103, 99, 109, 0>>,
            nonceInfo |-> <<67, 111, 110, 116, 101, 110, 116, 45, 69, 110, 99, 111, 100, 105,
                            110, 103, 58, 32, 110, 111, 110, 99, 101, 0>>]

SendIdle ==
  /\ pc = [p \in Procs |-> "idle"]
  /\ args = [p \in Procs |-> NoArgs]
  /\ loc = [p \in Procs |-> NoLoc]
  /\ ret = [p \in Procs |-> NoRet]
  /\ trace = [p \in Procs |-> <<>>]
  /\ sent = [p \in Procs |-> <<>>]
  /\ cancelled = [p \in Procs |-> FALSE]
  /\ mem = [a \in Addrs |-> MakeBuf(0, 0)]
  /\ pkg = PkgInit

(* the call goes on to step next, or returns err *)
Continue(p, err, next) ==
  /\ pc' = [pc EXCEPT ![p] = IF err = NoErr THEN next ELSE "done"]
  /\ ret' = [ret EXCEPT ![p] = [resp |-> 0, err |-> err]]

Did(p, names) == trace' = [trace EXCEPT ![p] = @ \o names]

(* Send(ctx, message, s, conf) is called *)
Invoke(p, a) ==
  /\ pc[p] = "idle"
  /\ args' = [args EXCEPT ![p] = a]
  /\ mem' = [mem EXCEPT ![MessageAddr(p)] = [arr |-> a.message, len |-> Len(a.message)]]
  /\ pc' = [pc EXCEPT ![p] = "validate"]
  /\ UNCHANGED <<loc, ret, trace, sent, cancelled, pkg, b64, hdr, vk, urg>>

(* a call with any combination of what the checks of Send look at *)
CallUnchecked(p) ==
  /\ pc[p] = "idle"
  /\ \E n \in MsgLens,
        e \in {<<>>, EndpointOK, EndpointNoHost, EndpointBadPort},
        a \in {<<>>, NotBase64, TestAuth},
        k \in {<<>>, NotBase64, NotAPoint, OffCurve, TestP256dh},
        r \in RecordSizes, u \in Urgencies, sb \in {SubscriberHTTPS, SubscriberHTTP} :
       Invoke(p, [ctx |-> "caller", message |-> Message(n),
                  s |-> [Endpoint |-> e, Keys |-> [Auth |-> a, P256dh |-> k]],
                  conf |-> [BaseConf EXCEPT !.RecordSize = r, !.Urgency = u, !.Subscriber = sb]])

(* a call with a message at the bound of the default record size *)
CallLong(p) ==
  /\ pc[p] = "idle"
  /\ \E n \in LongMsgLens, r \in {Int64(0, 0), Int64(0, maxRecordSize + 1)},
        c \in {BaseConf, EmptyConf, [BaseConf EXCEPT !.Urgency = "invalid"]},
        k \in {NotBase64, TestP256dh} :
       Invoke(p, [ctx |-> "caller", message |-> Message(n),
                  s |-> [Endpoint |-> EndpointOK, Keys |-> [Auth |-> TestAuth, P256dh |-> k]],
                  conf |-> [c EXCEPT !.RecordSize = r]])

(* a call with any combination of what the request is made of, for a
   subscription and a message that pass the checks *)
CallDelivery(p) ==
  /\ pc[p] = "idle"
  /\ \E c \in {"caller", "background"}, n \in {1}, e \in {EndpointOK, EndpointPort},
        v \in VapidKeys, sb \in {SubscriberHTTPS, SubscriberMailto}, ttl \in TTLs,
        tp \in {"", "a-test"}, u \in {"", UrgencyVeryLow}, x \in Expirations :
       Invoke(p, [ctx |-> c, message |-> Message(n),
                  s |-> [Endpoint |-> e, Keys |-> [Auth |-> TestAuth, P256dh |-> TestP256dh]],
                  conf |-> [BaseConf EXCEPT !.VAPIDKey = v, !.Subscriber = sb, !.TTL = ttl,
                                            !.Topic = tp, !.Urgency = u, !.VAPIDExpiration = x]])

(* lines 219-233 *)
Validate(p) ==
  /\ pc[p] = "validate"
  /\ LET a == args[p]
         r == ValidateStep(a.message, a.s, a.conf)
     IN /\ loc' = [loc EXCEPT ![p].recordSize = EffectiveRecordSize(a.conf)]
        /\ Did(p, r.did)
        /\ Continue(p, r.err, "decode")
  /\ UNCHANGED <<args, sent, cancelled, mem, pkg, b64, hdr, vk, urg>>

(* lines 235-243 *)
DecodeKeys(p) ==
  /\ pc[p] = "decode"
  /\ LET r == DecodeKeysStep(args[p].s.Keys)
     IN /\ loc' = [loc EXCEPT ![p].authSecret = r.authSecret,
                              ![p].userAgentPublicKeyBytes = r.userAgentPublicKeyBytes]
        /\ Did(p, r.did)
        /\ Continue(p, r.err, "salt")
  /\ UNCHANGED <<args, sent, cancelled, mem, pkg, b64, hdr, vk, urg>>

(* lines 245-248: the salt buffer is allocated and filled from rand.Reader *)
DrawSalt(p) ==
  /\ pc[p] = "salt"
  /\ \E d \in SaltSeeds \cup {RandFail} :
       /\ mem' = [mem EXCEPT ![SaltAddr(p)] =
                    IF d = RandFail THEN MakeBuf(16, 16)
                    ELSE [arr |-> SaltBytes(d), len |-> 16]]
       /\ loc' = [loc EXCEPT ![p].saltDraw = d]
       /\ Continue(p, IF d = RandFail THEN ErrRand ELSE NoErr, "key")
  /\ Did(p, <<"rand salt">>)
  /\ UNCHANGED <<args, sent, cancelled, pkg, b64, hdr, vk, urg>>

(* lines 251-255 *)
GenerateKey(p) ==
  /\ pc[p] = "key"
  /\ \E d \in KeySeeds \cup {RandFail} :
       /\ loc' = [loc EXCEPT ![p].appServerPrivateKey = d]
       /\ Continue(p, IF d = RandFail THEN ErrRand ELSE NoErr, "seal")
  /\ Did(p, <<"rand key">>)
  /\ UNCHANGED <<args, sent, cancelled, mem, pkg, b64, hdr, vk, urg>>

(* lines 257-314 *)
Seal(p) ==
  /\ pc[p] = "seal"
  /\ LET a == args[p]
         l == loc[p]
         r == SealStep(BufBytes(mem[MessageAddr(p)]), l.recordSize, BufBytes(mem[SaltAddr(p)]), l.authSecret,
                       l.userAgentPublicKeyBytes, l.appServerPrivateKey, pkg)
     IN /\ mem' = [mem EXCEPT ![RecordAddr(p)] = r.record]
        /\ Did(p, r.did)
        /\ Continue(p, r.err, "request")
  /\ UNCHANGED <<args, loc, sent, cancelled, pkg, b64, hdr, vk, urg>>

(* lines 316-333 *)
NewRequest(p) ==
  /\ pc[p] = "request"
  /\ LET a == args[p]
         r == RequestStep(a.ctx, a.s, a.conf, RecordAddr(p))
     IN /\ loc' = [loc EXCEPT ![p].req = IF r.err = NoErr THEN r.req ELSE NoReq]
        /\ Did(p, r.did)
        /\ Continue(p, r.err, "auth")
  /\ UNCHANGED <<args, sent, cancelled, mem, pkg, b64, hdr, vk, urg>>

(* lines 335-349 *)
Authorize(p) ==
  /\ pc[p] = "auth"
  /\ \E now \in Nows, sigDraw \in SigSeeds \cup {RandFail} :
       LET a == args[p]
           r == AuthStep(a.s, a.conf, loc[p].req, now, sigDraw)
       IN /\ loc' = [loc EXCEPT ![p].req = r.req,
                                ![p].expiration = Expiration(a.conf, now),
                                ![p].sigDraw = IF r.signed THEN sigDraw ELSE 0]
          /\ Continue(p, r.err, "do")
  /\ Did(p, <<"makeAuthHeader">>)
  /\ UNCHANGED <<args, sent, cancelled, mem, pkg, b64, hdr, vk, urg>>

(* line 351: the request, with the body its reader yields, goes to the client *)
ClientDo(p) ==
  /\ pc[p] = "do"
  /\ sent' = [sent EXCEPT ![p] = Append(@, [loc[p].req EXCEPT
                                              !.Body = BufBytes(mem[loc[p].req.Body])])]
  /\ pc' = [pc EXCEPT ![p] = "pending"]
  /\ Did(p, <<"Client.Do">>)
  /\ UNCHANGED <<args, loc, ret, cancelled, mem, pkg, b64, hdr, vk, urg>>

(* the caller's context is done *)
CtxDone(p, ctx) == ctx # "background" /\ ctx = args[p].ctx /\ cancelled[p]

(* line 351: Client.Do returns, and Send with it *)
ClientReturn(p) ==
  /\ pc[p] = "pending"
  /\ \E o \in ClientDoOutcomes(CtxDone(p, loc[p].req.ctx)) : ret' = [ret EXCEPT ![p] = o]
  /\ pc' = [pc EXCEPT ![p] = "done"]
  /\ UNCHANGED <<args, loc, trace, sent, cancelled, mem, pkg, b64, hdr, vk, urg>>

(* the caller cancels the context it gave the call, once the request is made
   or while it is with the client *)
Cancel(p) ==
  /\ pc[p] \in {"do", "pending"}
  /\ args[p].ctx # "background"
  /\ ~cancelled[p]
  /\ cancelled' = [cancelled EXCEPT ![p] = TRUE]
  /\ UNCHANGED <<pc, args, loc, ret, trace, sent, mem, pkg, b64, hdr, vk, urg>>

(* the caller takes the result; what the call allocated is garbage *)
Return(p) ==
  /\ pc[p] = "done"
  /\ pc' = [pc EXCEPT ![p] = "idle"]
  /\ args' = [args EXCEPT ![p] = NoArgs]
  /\ loc' = [loc EXCEPT ![p] = NoLoc]
  /\ ret' = [ret EXCEPT ![p] = NoRet]
  /\ trace' = [trace EXCEPT ![p] = <<>>]
  /\ sent' = [sent EXCEPT ![p] = <<>>]
  /\ cancelled' = [cancelled EXCEPT ![p] = FALSE]
  /\ mem' = [mem EXCEPT ![SaltAddr(p)] = MakeBuf(0, 0), ![RecordAddr(p)] = MakeBuf(0, 0),
                         ![MessageAddr(p)] = MakeBuf(0, 0)]
  /\ UNCHANGED <<pkg, b64, hdr, vk, urg>>

(***************************************************************************)
(* The codec on its own: encode bytes in one of the four encodings, or     *)
(* take a given text, and decode it with b64Decode                         *)
(***************************************************************************)
MaxRawLen == 4

RawBytes == {0, 3, 239, 251, 255}

RECURSIVE SeqsUpTo(_, _)
SeqsUpTo(S, n) ==
  IF n = 0 THEN {<<>>}
  ELSE LET shorter == SeqsUpTo(S, n - 1)
       IN shorter \cup {Append(s, x) : s \in {t \in shorter : Len(t) = n - 1}, x \in S}

RawInputs == SeqsUpTo(RawBytes, MaxRawLen)

(* Texts that are no encoding of anything, and some that are *)
GivenTexts == { <<"{", "}">>, <<"A">>, <<"A", "Q", "=">>, <<"A", "Q", "=", "=">>,
                <<"A", "Q", "I", "=">>, <<"A", "Q", "=", "=", "A">>,
                <<"-", "+", "A", "A">>, <<"+", "-", "A", "A">>, <<"=">> }

B64Idle == [pc |-> "input", variant |-> "", encoded |-> FALSE, raw |-> <<>>, enc |-> "StdEncoding",
            s |-> <<>>, out |-> <<>>, err |-> FALSE]

B64Encode ==
  /\ b64.pc = "input"
  /\ \E raw \in RawInputs, enc \in Encodings :
       b64' = [B64Idle EXCEPT !.pc = "text", !.encoded = TRUE, !.raw = raw,
                              !.enc = enc, !.s = EncodeToString(enc, raw)]
  /\ UNCHANGED <<sendVars, hdr, vk, urg>>

B64Given ==
  /\ b64.pc = "input"
  /\ \E s \in GivenTexts : b64' = [B64Idle EXCEPT !.pc = "text", !.s = s]
  /\ UNCHANGED <<sendVars, hdr, vk, urg>>

B64DecodeCall ==
  /\ b64.pc = "text"
  /\ LET r == b64Decode(b64.s)
     IN b64' = [b64 EXCEPT !.pc = "decoded", !.variant = b64Encoding(b64.s),
                           !.out = r.out, !.err = r.err]
  /\ UNCHANGED <<sendVars, hdr, vk, urg>>

B64Done ==
  /\ b64.pc = "decoded"
  /\ b64' = B64Idle
  /\ UNCHANGED <<sendVars, hdr, vk, urg>>

(***************************************************************************)
(* makeAuthHeader on its own                                               *)
(***************************************************************************)
HdrIdle == [pc |-> "idle", endpoint |-> <<>>, subscriber |-> <<>>, vapidKey |-> 0,
            expiration |-> ZeroTime, out |-> NoHeader]

HdrCall ==
  /\ hdr.pc = "idle"
  /\ \E e \in Endpoints, sb \in Subscribers, v \in VapidKeys,
        x \in {GoldTime} \cup {UnixTime(now) : now \in Nows},
        sigDraw \in SigSeeds \cup {RandFail} :
       hdr' = [pc |-> "returned", endpoint |-> e, subscriber |-> sb, vapidKey |-> v,
               expiration |-> x, out |-> makeAuthHeader(e, sb, v, x, sigDraw)]
  /\ UNCHANGED <<sendVars, b64, vk, urg>>

HdrDone ==
  /\ hdr.pc = "returned"
  /\ hdr' = HdrIdle
  /\ UNCHANGED <<sendVars, b64, vk, urg>>

(***************************************************************************)
(* GenerateVAPIDKey and ParseVAPIDKey.  A private key is its scalar, which *)
(* the model keeps below 256.                                              *)
(***************************************************************************)
ErrBase64 == "base64: illegal data"

ErrPrivateKey == "ecdsa: invalid private key"

(* PrivateKey.Bytes(): the scalar on 32 bytes, big-endian *)
PrivateKeyBytes(d) == Zeros(31) \o <<d>>

(* lines 118-128 *)
GenerateVAPIDKey(draw) ==
  IF draw = RandFail THEN [text |-> <<>>, err |-> ErrRand]
  ELSE [text |-> EncodeToString("RawURLEncoding", PrivateKeyBytes(draw)), err |-> NoErr]

(* ecdsa.ParseRawPrivateKey for P-256: 32 bytes of a scalar that is not 0 *)
ParseRawPrivateKey(raw) ==
  IF Len(raw) = 32 /\ SubSeq(raw, 1, 31) = Zeros(31) /\ raw[32] # 0
  THEN [key |-> raw[32], err |-> NoErr]
  ELSE [key |-> 0, err |-> ErrPrivateKey]

(* lines 132-138, given what b64Decode returns *)
parseDecoded(raw) ==
  IF raw.err THEN [key |-> 0, err |-> ErrBase64] ELSE ParseRawPrivateKey(raw.out)

ParseVAPIDKey(privateKey) == parseDecoded(b64Decode(privateKey))

VkIdle == [pc |-> "idle", draw |-> 0, text |-> <<>>, key |-> 0, err |-> NoErr]

VkGenerate ==
  /\ vk.pc = "idle"
  /\ \E d \in VapidKeys \cup {RandFail} :
       vk' = [VkIdle EXCEPT !.pc = IF d = RandFail THEN "returned" ELSE "generated",
                            !.draw = d, !.text = GenerateVAPIDKey(d).text,
                            !.err = GenerateVAPIDKey(d).err]
  /\ UNCHANGED <<sendVars, b64, hdr, urg>>

VkParse ==
  /\ vk.pc = "generated"
  /\ vk' = [vk EXCEPT !.pc = "returned", !.key = ParseVAPIDKey(vk.text).key,
                      !.err = ParseVAPIDKey(vk.text).err]
  /\ UNCHANGED <<sendVars, b64, hdr, urg>>

VkDone ==
  /\ vk.pc = "returned"
  /\ vk' = VkIdle
  /\ UNCHANGED <<sendVars, b64, hdr, urg>>

(***************************************************************************)
(* Urgency.isValid on its own                                              *)
(***************************************************************************)
(* the four levels in other cases and with white space around them, and
   other strings *)
UrgencyTexts ==
  {UrgencyVeryLow, UrgencyLow, UrgencyNormal, UrgencyHigh}
    \cup {"Very-Low", "VERY-LOW", "very-Low", " very-low", "very-low ", " very-low ",
          "very-low\n", "\tvery-low", "very low", "very_low", "verylow", "very-lo"}
    \cup {"Low", "LOW", "loW", " low", "low ", " low ", "low\n", "\tlow", "lo", "lower",
          "l", "ow"}
    \cup {"Normal", "NORMAL", "normaL", " normal", "normal ", " normal ", "normal\n",
          "\tnormal", "norma", "normally", "norm", "ormal"}
    \cup {"High", "HIGH", "higH", " high", "high ", " high ", "high\n", "\thigh", "hig",
          "higher", "hi", "igh"}
    \cup {"", " ", "foo", "invalid", "urgent", "medium", "0", "1", "true", "very-high"}

UrgIdle == [pc |-> "idle", u |-> "", valid |-> FALSE]

(* a value of type Urgency is made of a string *)
UrgGiven ==
  /\ urg.pc = "idle"
  /\ \E u \in UrgencyTexts : urg' = [UrgIdle EXCEPT !.pc = "given", !.u = u]
  /\ UNCHANGED <<sendVars, b64, hdr, vk>>

UrgCall ==
  /\ urg.pc = "given"
  /\ urg' = [urg EXCEPT !.pc = "returned", !.valid = isValid(urg.u)]
  /\ UNCHANGED <<sendVars, b64, hdr, vk>>

UrgDone ==
  /\ urg.pc = "returned"
  /\ urg' = UrgIdle
  /\ UNCHANGED <<sendVars, b64, hdr, vk>>

(***************************************************************************)
(* Send on its own: what one call hands to the client, or the error it     *)
(* returns before that, from its arguments and what it draws.  Every       *)
(* buffer is the call's own.                                               *)
(***************************************************************************)
Draws(saltDraw, keyDraw, expiration, sigDraw) ==
  [saltDraw |-> saltDraw, keyDraw |-> keyDraw, expiration |-> expiration, sigDraw |-> sigDraw]

(* lines 316-351, given the sealed record *)
sendRecord(a, d, record) ==
  LET rq == RequestStep(a.ctx, a.s, a.conf, record)
      au == setAuthorization(rq.req, makeAuthHeader(a.s.Endpoint, a.conf.Subscriber,
                                                    a.conf.VAPIDKey, d.expiration, d.sigDraw))
  IN IF rq.err # NoErr THEN [err |-> rq.err, req |-> NoReq]
     ELSE IF au.err # NoErr THEN [err |-> au.err, req |-> NoReq]
     ELSE [err |-> NoErr, req |-> au.req]

(* lines 245-351, given the decoded keys *)
sendDecoded(a, d, k) ==
  LET sealed == SealStep(a.message, EffectiveRecordSize(a.conf), SaltBytes(d.saltDraw),
                         k.authSecret, k.userAgentPublicKeyBytes, d.keyDraw, PkgInit)
  IN IF d.saltDraw = RandFail \/ d.keyDraw = RandFail THEN [err |-> ErrRand, req |-> NoReq]
     ELSE IF sealed.err # NoErr THEN [err |-> sealed.err, req |-> NoReq]
     ELSE sendRecord(a, d, BufBytes(sealed.record))

(* lines 218-351 *)
SendAlone(a, d) ==
  LET v == ValidateStep(a.message, a.s, a.conf)
      k == DecodeKeysStep(a.s.Keys)
  IN IF v.err # NoErr THEN [err |-> v.err, req |-> NoReq]
     ELSE IF k.err # NoErr THEN [err |-> k.err, req |-> NoReq]
     ELSE sendDecoded(a, d, k)

(* two callers: calls that differ in the message and in the subscriber key *)
CallConc(p) ==
  /\ pc[p] = "idle"
  /\ \E k \in {NotBase64, TestP256dh} :
       Invoke(p, [ctx |-> "caller", message |-> Message(p),
                  s |-> [Endpoint |-> EndpointOK, Keys |-> [Auth |-> TestAuth, P256dh |-> k]],
                  conf |-> BaseConf])

(***************************************************************************)
(* Specifications                                                          *)
(***************************************************************************)
Init == SendIdle /\ b64 = B64Idle /\ hdr = HdrIdle /\ vk = VkIdle /\ urg = UrgIdle

(* one caller, every input *)
Next ==
  \/ CallUnchecked(1)
  \/ CallLong(1)
  \/ CallDelivery(1)
  \/ Validate(1)
  \/ DecodeKeys(1)
  \/ DrawSalt(1)
  \/ GenerateKey(1)
  \/ Seal(1)
  \/ NewRequest(1)
  \/ Authorize(1)
  \/ ClientDo(1)
  \/ ClientReturn(1)
  \/ Cancel(1)
  \/ Return(1)

Spec == Init /\ [][Next]_vars

(* the codec *)
NextB64 == B64Encode \/ B64Given \/ B64DecodeCall \/ B64Done

SpecB64 == Init /\ [][NextB64]_vars

(* makeAuthHeader *)
NextHdr == HdrCall \/ HdrDone

SpecHdr == Init /\ [][NextHdr]_vars

(* two callers of Send at once, and a caller of the key functions *)
NextConc ==
  \/ \E p \in Procs :
       \/ CallConc(p)
       \/ Validate(p)
       \/ DecodeKeys(p)
       \/ DrawSalt(p)
       \/ GenerateKey(p)
       \/ Seal(p)
       \/ NewRequest(p)
       \/ Authorize(p)
       \/ ClientDo(p)
       \/ ClientReturn(p)
       \/ Return(p)
  \/ VkGenerate
  \/ VkParse
  \/ VkDone

SpecConc == Init /\ [][NextConc]_vars

(* Urgency.isValid *)
NextUrg == UrgGiven \/ UrgCall \/ UrgDone

SpecUrg == Init /\ [][NextUrg]_vars

(***************************************************************************)
(* Properties.  What they say of a call is said from its arguments and     *)
(* its draws, in the terms of the specification.                           *)
(***************************************************************************)
CipherSteps == {"b64Decode auth", "b64Decode p256dh", "rand salt", "rand key",
                "NewPublicKey", "ECDH", "hkdfExpand", "Seal"}

(* the subscription has its three fields *)
Complete(a) == a.s.Endpoint # <<>> /\ a.s.Keys.Auth # <<>> /\ a.s.Keys.P256dh # <<>>

(* the effective record size limit R *)
Limit(a) == IF a.conf.RecordSize = Int64(0, 0) THEN Int64(0, 4096) ELSE a.conf.RecordSize

(* len(message) > R - 103 *)
Exceeds(a) ==
  IF Limit(a).q # 0 THEN Limit(a).q < 0 ELSE Len(a.message) > Limit(a).r - 103

UrgencyOutside(a) == a.conf.Urgency \notin {"", "very-low", "low", "normal", "high"}

AuthUndecodable(a) == b64Decode(a.s.Keys.Auth).err

KeyUndecodable(a) == b64Decode(a.s.Keys.P256dh).err

EndpointAccepted(e) ==
  ~UrlParse(e).err /\ UrlParse(e).url.Scheme # <<>> /\ UrlParse(e).url.Host # <<>>

SubscriberAccepted(sb) ==
  HasPrefix(sb, <<"h","t","t","p","s",":">>) \/ HasPrefix(sb, <<"m","a","i","l","t","o",":">>)

(* C1: whenever the urgency is non-empty and outside the four levels, the
   subscription is complete and the message fits, Send fails with the
   invalid-urgency error before any Cipher step has run: no decoding of the
   keys, no draw of a salt or a key, no sealing. *)
C1_UrgencyBeforeCipher ==
  \A p \in Procs :
    (pc[p] = "done" /\ Complete(args[p]) /\ ~Exceeds(args[p]) /\ UrgencyOutside(args[p]))
      => /\ ret[p].err = ErrInvalidUrgency
         /\ \A i \in DOMAIN trace[p] : trace[p][i] \notin CipherSteps

(* every check, the Cipher and the Token Builder pass for the call of p *)
NoErrorPath(p) ==
  /\ Complete(args[p])
  /\ ~Exceeds(args[p])
  /\ ~AuthUndecodable(args[p])
  /\ ~KeyUndecodable(args[p])
  /\ loc[p].saltDraw # RandFail
  /\ loc[p].appServerPrivateKey # RandFail
  /\ ~NewPublicKeyFails(b64Decode(args[p].s.Keys.P256dh).out)
  /\ ~UrgencyOutside(args[p])
  /\ EndpointAccepted(args[p].s.Endpoint)
  /\ SubscriberAccepted(args[p].conf.Subscriber)
  /\ loc[p].sigDraw # RandFail

(* C2: a call hands a request to the transport once when every validation,
   the Cipher and the Token Builder succeed, and never otherwise; there is
   no second attempt. *)
C2_OneTransportCall ==
  \A p \in Procs :
    /\ Len(sent[p]) <= 1
    /\ Len(sent[p]) = 1 <=> (pc[p] \in {"pending", "done"} /\ NoErrorPath(p))

C2_Witness ==
  /\ pc[1] = "done"
  /\ Len(sent[1]) = 1
  /\ ret[1].err = ErrTransport

(* C3: the request handed to the transport is bound to the ctx argument, and
   a call whose ctx is cancelled while the transport call is pending returns
   an error. *)
C3_BoundToCallerContext ==
  \A p \in Procs :
    /\ pc[p] = "pending" => sent[p][1].ctx = args[p].ctx
    /\ (pc[p] = "done" /\ Len(sent[p]) = 1 /\ cancelled[p]) => ret[p].err # NoErr

(* C4: with a complete subscription, Send returns the too-long error exactly
   when len(message) > R - 103, R being Config.RecordSize or 4096 when that
   is 0, and it does so before any key is decoded. *)
C4_LengthBound ==
  \A p \in Procs :
    (pc[p] \notin {"idle", "validate"} /\ Complete(args[p]))
      => /\ ret[p].err = ErrTooLong <=> Exceeds(args[p])
         /\ ret[p].err = ErrTooLong => trace[p] = <<"subscription", "length">>

C4_Witness ==
  /\ pc[1] = "done"
  /\ ret[1].err = ErrTooLong
  /\ args[1].conf = EmptyConf
  /\ Len(args[1].message) = 4096 - 102

(* C5: an incomplete subscription, an auth that does not decode, a p256dh
   that does not decode and an urgency outside the four levels each give
   their own error, before the transport is called; of several invalid
   inputs the earliest check reports: completeness, then length, then auth,
   then p256dh. *)
C5_NamedErrors ==
  /\ Cardinality({ErrInvalidSubscription, ErrTooLong, ErrInvalidAuth, ErrInvalidPublicKey,
                  ErrInvalidUrgency}) = 5
  /\ \A p \in Procs :
       pc[p] = "done" =>
         /\ ~Complete(args[p]) => ret[p].err = ErrInvalidSubscription
         /\ (Complete(args[p]) /\ Exceeds(args[p])) => ret[p].err = ErrTooLong
         /\ (Complete(args[p]) /\ ~Exceeds(args[p]) /\ AuthUndecodable(args[p]))
              => ret[p].err = ErrInvalidAuth
         /\ (Complete(args[p]) /\ ~Exceeds(args[p]) /\ ~AuthUndecodable(args[p])
               /\ KeyUndecodable(args[p]))
              => ret[p].err = ErrInvalidPublicKey
         /\ (Complete(args[p]) /\ ~Exceeds(args[p]) /\ ~AuthUndecodable(args[p])
               /\ ~KeyUndecodable(args[p]) /\ UrgencyOutside(args[p])
               /\ loc[p].saltDraw # RandFail /\ loc[p].appServerPrivateKey # RandFail
               /\ ~NewPublicKeyFails(b64Decode(args[p].s.Keys.P256dh).out)
               /\ ~UrlParse(args[p].s.Endpoint).err)
              => ret[p].err = ErrInvalidUrgency
         /\ (~Complete(args[p]) \/ Exceeds(args[p]) \/ AuthUndecodable(args[p])
               \/ KeyUndecodable(args[p]) \/ UrgencyOutside(args[p]))
              => sent[p] = <<>>

C5_Witness ==
  /\ pc[1] = "done"
  /\ args[1].s.Keys.Auth = NotBase64
  /\ args[1].s.Keys.P256dh = NotBase64
  /\ args[1].conf.Urgency = "invalid"
  /\ ret[1].err = ErrInvalidAuth

(* what the call of p has drawn *)
CallDraws(p) ==
  Draws(loc[p].saltDraw, loc[p].appServerPrivateKey, loc[p].expiration, loc[p].sigDraw)

(* C6: under any interleaving of concurrent calls, the request a call hands
   to the transport, or the error it returns, is that of the same call made
   alone with the same inputs and draws; no call touches a buffer of another
   call, the package variables stay as they are, and the key functions
   return what they return alone. *)
C6_Reentrant ==
  /\ \A p \in Procs :
       /\ pc[p] = "pending"
            => SendAlone(args[p], CallDraws(p)) = [err |-> NoErr, req |-> sent[p][1]]
       /\ (pc[p] = "done" /\ sent[p] # <<>>)
            => SendAlone(args[p], CallDraws(p)) = [err |-> NoErr, req |-> sent[p][1]]
       /\ (pc[p] = "done" /\ sent[p] = <<>>)
            => /\ ret[p].err # NoErr
               /\ ret[p].err = SendAlone(args[p], CallDraws(p)).err
       /\ pc[p] = "idle"
            => mem[SaltAddr(p)] = MakeBuf(0, 0) /\ mem[RecordAddr(p)] = MakeBuf(0, 0)
  /\ pkg = PkgInit
  /\ (vk.pc = "returned" /\ vk.draw # RandFail) => (vk.err = NoErr /\ vk.key = vk.draw)

C6_Witness ==
  /\ pc[1] = "pending"
  /\ pc[2] = "pending"
  /\ loc[1].saltDraw # loc[2].saltDraw
  /\ vk.pc = "generated"

(* the four bytes of u, the most significant first *)
BigEndian4(u) ==
  <<(u \div 16777216) % 256, (u \div 65536) % 256, (u \div 256) % 256, u % 256>>

(* the input keying material, the content encryption key and the nonce of
   the call of p *)
CallIKM(p) ==
  hkdfExpand(32, ECDH(loc[p].appServerPrivateKey, loc[p].userAgentPublicKeyBytes),
             loc[p].authSecret,
             PkgInit.webPushInfo \o loc[p].userAgentPublicKeyBytes
               \o PublicKeyBytes(loc[p].appServerPrivateKey))

CallCEK(p) ==
  hkdfExpand(16, CallIKM(p), SaltBytes(loc[p].saltDraw), PkgInit.contentEncryptionKeyInfo)

CallNonce(p) == hkdfExpand(12, CallIKM(p), SaltBytes(loc[p].saltDraw), PkgInit.nonceInfo)

(* C7: the body of the request of a successful Send is the 16 bytes of the
   salt, the record size limit (its low 32 bits) on 4 bytes big-endian, a
   byte 65, the 65 bytes of the ephemeral public key and the seal of the
   message followed by a byte 2; it is 86 + len(message) + 1 + 16 bytes
   long, never padded. *)
C7_RecordLayout ==
  \A p \in Procs :
    pc[p] = "pending" =>
      /\ sent[p][1].Body =
           SaltBytes(loc[p].saltDraw) \o BigEndian4(Limit(args[p]).r) \o <<65>>
             \o PublicKeyBytes(loc[p].appServerPrivateKey)
             \o SealBytes(CallCEK(p), CallNonce(p), args[p].message \o <<2>>)
      /\ Len(SaltBytes(loc[p].saltDraw)) = 16
      /\ Len(PublicKeyBytes(loc[p].appServerPrivateKey)) = 65
      /\ Len(sent[p][1].Body) = 86 + Len(args[p].message) + 1 + 16

C7_Witness ==
  /\ pc[1] = "pending"
  /\ args[1].conf.RecordSize = Int64(0, 0)
  /\ Len(args[1].message) = 1
  /\ Len(sent[1][1].Body) = 104
  /\ SubSeq(sent[1][1].Body, 17, 21) = <<0, 0, 16, 0, 65>>

(* C8: bytes encoded in any of the four base64 variants decode with
   b64Decode to the same bytes, without error. *)
C8_RoundTrip ==
  (b64.pc = "decoded" /\ b64.encoded) => (~b64.err /\ b64.out = b64.raw)

(* three bytes in padded standard base64: no "=", none of - _ + / *)
C8_Witness ==
  /\ b64.pc = "decoded"
  /\ b64.encoded
  /\ b64.enc = "StdEncoding"
  /\ b64.raw = <<0, 3, 0>>
  /\ b64.s = <<"A", "A", "M", "A">>
  /\ b64.out = b64.raw

(* C9: makeAuthHeader returns the invalid-endpoint error for an endpoint
   without scheme or without host, else the invalid-subscriber error for a
   subscriber that starts with neither https: nor mailto:, in both cases
   with an empty header and nothing signed; the endpoint is reported when
   both are invalid.  An endpoint url.Parse rejects gives the parser's
   error, with an empty header and nothing signed as well. *)
C9_ValidateBeforeSigning ==
  hdr.pc = "returned" =>
    /\ (hdr.endpoint \in {<<>>, EndpointNoScheme, EndpointNoHost, EndpointRelative,
                          EndpointOpaque})
         => hdr.out = [header |-> <<>>, err |-> ErrInvalidEndpoint, signed |-> FALSE]
    /\ (~UrlParse(hdr.endpoint).err /\ ~EndpointAccepted(hdr.endpoint))
         => hdr.out = [header |-> <<>>, err |-> ErrInvalidEndpoint, signed |-> FALSE]
    /\ (EndpointAccepted(hdr.endpoint) /\ ~SubscriberAccepted(hdr.subscriber))
         => hdr.out = [header |-> <<>>, err |-> ErrInvalidSubscriber, signed |-> FALSE]
    /\ UrlParse(hdr.endpoint).err
         => hdr.out = [header |-> <<>>, err |-> ErrURLParse, signed |-> FALSE]
    /\ hdr.out.signed
         => (EndpointAccepted(hdr.endpoint) /\ SubscriberAccepted(hdr.subscriber))

C9_Witness ==
  /\ hdr.pc = "returned"
  /\ hdr.endpoint = EndpointNoHost
  /\ hdr.subscriber = SubscriberHTTP
  /\ hdr.out.err = ErrInvalidEndpoint

(* scheme://host of the endpoints the calls are made with *)
ExpectedAud(e) ==
  CASE e = EndpointOK -> <<"h","t","t","p","s",":","/","/","h">>
    [] e = EndpointQuery -> <<"h","t","t","p","s",":","/","/","h">>
    [] e = EndpointPort -> <<"h","t","t","p","s",":","/","/","h",":","8">>
    [] e = EndpointNoPath -> <<"h","t","t","p","s",":","/","/","h">>

(* C10: the token makeAuthHeader builds for an endpoint with a scheme, a
   host and a path has the claims aud = scheme://host without path, query
   or fragment, exp = the expiry in unix seconds and sub = the subscriber,
   and the header is "vapid t=" token ", k=" public key. *)
C10_TokenClaims ==
  (hdr.pc = "returned" /\ hdr.out.err = NoErr) =>
    /\ hdr.endpoint \in {EndpointOK, EndpointQuery, EndpointPort, EndpointNoPath}
    /\ Len(hdr.out.header) = 4
    /\ hdr.out.header[1] = "vapid t="
    /\ hdr.out.header[2].claims = [aud |-> ExpectedAud(hdr.endpoint),
                                   exp |-> hdr.expiration.unix,
                                   sub |-> hdr.subscriber]
    /\ hdr.out.header[2].header = [alg |-> "ES256", typ |-> "JWT"]
    /\ hdr.out.header[2].signature.key = hdr.vapidKey
    /\ hdr.out.header[2].signature.over = hdr.out.header[2].claims
    /\ hdr.out.header[3] = ", k="
    /\ hdr.out.header[4] = EncodeToString("RawURLEncoding", PublicKeyBytes(hdr.vapidKey))

C10_Witness ==
  /\ hdr.pc = "returned"
  /\ hdr.endpoint = EndpointQuery
  /\ hdr.subscriber = SubscriberMailto
  /\ hdr.expiration = GoldTime
  /\ hdr.out.err = NoErr

(* the whole number of seconds of a Duration *)
TTLSeconds(d) == IF d.neg THEN -d.sec ELSE d.sec

(* the names of the headers of the request of a call with arguments a, as
   Header keeps them *)
HeaderNames(a) ==
  {"Content-Encoding", "Content-Type", "Ttl", "Authorization"}
    \cup (IF a.conf.Topic # "" THEN {"Topic"} ELSE {})
    \cup (IF a.conf.Urgency # "" THEN {"Urgency"} ELSE {})

(* all of the request but the value of TTL: the method, the URL, the header
   set, and the value of every other header *)
RequestButTTL(p) ==
  /\ sent[p][1].Method = "POST"
  /\ sent[p][1].URL = args[p].s.Endpoint
  /\ DOMAIN sent[p][1].Header = HeaderNames(args[p])
  /\ sent[p][1].Header["Content-Encoding"] = "aes128gcm"
  /\ sent[p][1].Header["Content-Type"] = "application/octet-stream"
  /\ sent[p][1].Header["Authorization"] =
       makeAuthHeader(args[p].s.Endpoint, args[p].conf.Subscriber, args[p].conf.VAPIDKey,
                      loc[p].expiration, loc[p].sigDraw).header
  /\ sent[p][1].Header["Authorization"][1] = "vapid t="
  /\ args[p].conf.Topic # "" => sent[p][1].Header["Topic"] = args[p].conf.Topic
  /\ args[p].conf.Urgency # ""
       => /\ sent[p][1].Header["Urgency"] = args[p].conf.Urgency
          /\ args[p].conf.Urgency \in {"very-low", "low", "normal", "high"}

(* C11: the request handed to the transport is a POST to the endpoint with
   exactly the headers Content-Encoding: aes128gcm, Content-Type:
   application/octet-stream, TTL: the whole number of seconds of Config.TTL,
   Authorization: the token header, Topic if and only if Config.Topic is
   not empty, and Urgency if and only if Config.Urgency is not empty. *)
C11_RequestHeaders ==
  \A p \in Procs :
    pc[p] = "pending"
      => /\ RequestButTTL(p)
         /\ sent[p][1].Header["Ttl"] = Itoa(TTLSeconds(args[p].conf.TTL))

(* the request but for the float64 of Duration.Seconds: TTL is the whole
   number of seconds, or one more where the float64 is rounded up *)
RequestUpToRounding ==
  \A p \in Procs :
    pc[p] = "pending"
      => /\ RequestButTTL(p)
         /\ sent[p][1].Header["Ttl"] \in {Itoa(TTLSeconds(args[p].conf.TTL)),
                                          Itoa(TTLSeconds(args[p].conf.TTL) + 1)}
         /\ args[p].conf.TTL.sec < 16777216
              => sent[p][1].Header["Ttl"] = Itoa(TTLSeconds(args[p].conf.TTL))

(* C12: Urgency.isValid is true of the four values very-low, low, normal
   and high and false of every other string: the empty string, and strings
   that differ from the four in case or in white space around them. *)
C12_ExactlyFourLevels ==
  urg.pc = "returned"
    => (urg.valid <=> (urg.u = "very-low" \/ urg.u = "low" \/ urg.u = "normal"
                         \/ urg.u = "high"))

C12_Witness ==
  /\ urg.pc = "returned"
  /\ urg.u = "High"
  /\ ~urg.valid

(* the first of the characters - _ + / in s, "" when it has none *)
FirstSpecial(s) ==
  IF \A i \in 1..Len(s) : s[i] \notin {"-", "_", "+", "/"} THEN ""
  ELSE s[CHOOSE i \in 1..Len(s) :
           /\ s[i] \in {"-", "_", "+", "/"}
           /\ \A j \in 1..(i - 1) : s[j] \notin {"-", "_", "+", "/"}]

EndsWithPad(s) == Len(s) > 0 /\ s[Len(s)] = "="

VariantNamed(isURL, padded) ==
  IF isURL THEN (IF padded THEN "URLEncoding" ELSE "RawURLEncoding")
  ELSE (IF padded THEN "StdEncoding" ELSE "RawStdEncoding")

(* C13, as stated: the detection selects the URL variant unless + or / is
   the first of - _ + / in the input, so an input with none of the four
   selects a URL decoder; padding is selected exactly when the last
   character is =; every input resolves to one of the four decoders. *)
C13_URLUnlessStandardFirst ==
  b64.pc = "decoded"
    => b64.variant = VariantNamed(FirstSpecial(b64.s) \notin {"+", "/"}, EndsWithPad(b64.s))

(* C13, amended: the detection selects the URL variant exactly when - or _
   is the first of - _ + / in the input, and the standard variant otherwise,
   so an input with none of the four selects a standard decoder, which
   decodes it as the URL decoder would; padding is selected exactly when the
   last character is =; every input resolves to one of the four decoders. *)
C13_StandardUnlessURLFirst ==
  b64.pc = "decoded"
    => /\ b64.variant \in Encodings
       /\ b64.variant = VariantNamed(FirstSpecial(b64.s) \in {"-", "_"}, EndsWithPad(b64.s))
       /\ FirstSpecial(b64.s) = ""
            => /\ b64.variant \in {"StdEncoding", "RawStdEncoding"}
               /\ DecodeString(VariantNamed(TRUE, EndsWithPad(b64.s)), b64.s)
                    = [err |-> b64.err, out |-> b64.out]

C13_Witness ==
  /\ b64.pc = "decoded"
  /\ b64.s = <<"A", "A", "M", "A">>
  /\ FirstSpecial(b64.s) = ""
  /\ b64.variant = "RawStdEncoding"

(* the p256dh of a decodes to bytes that are no uncompressed point of P-256 *)
KeyUnparsable(a) == ~KeyUndecodable(a) /\ NewPublicKeyFails(b64Decode(a.s.Keys.P256dh).out)

(* C14: in a Send that passes the first two checks, an auth that cannot be
   decoded yields the invalid-auth error, and a p256dh that cannot be
   decoded, or that decodes to bytes that are no valid uncompressed P-256
   point, yields the invalid-public-key error (the random source not
   failing). *)
C14_KeyErrorsNamed ==
  \A p \in Procs :
    (/\ pc[p] = "done" /\ Complete(args[p]) /\ ~Exceeds(args[p])
     /\ loc[p].saltDraw # RandFail /\ loc[p].appServerPrivateKey # RandFail)
      => /\ AuthUndecodable(args[p]) => ret[p].err = ErrInvalidAuth
         /\ (~AuthUndecodable(args[p]) /\ (KeyUndecodable(args[p]) \/ KeyUnparsable(args[p])))
              => ret[p].err = ErrInvalidPublicKey

(* the errors of the key material as Send returns them: the named errors
   for what cannot be decoded; for bytes that are no point, the error of
   crypto/ecdh, after the salt and the key are drawn *)
KeyErrorsAsReturned ==
  \A p \in Procs :
    (pc[p] = "done" /\ Complete(args[p]) /\ ~Exceeds(args[p]))
      => /\ AuthUndecodable(args[p]) => ret[p].err = ErrInvalidAuth
         /\ (~AuthUndecodable(args[p]) /\ KeyUndecodable(args[p]))
              => ret[p].err = ErrInvalidPublicKey
         /\ (~AuthUndecodable(args[p]) /\ KeyUnparsable(args[p]))
              => /\ ret[p].err \in {ErrECDHPublicKey, ErrPointEncoding, ErrNotOnCurve, ErrRand}
                 /\ ret[p].err = ErrRand
                      <=> (loc[p].saltDraw = RandFail \/ loc[p].appServerPrivateKey = RandFail)

(* the record of the call of p has been sealed *)
Sealed(p) == \E i \in DOMAIN trace[p] : trace[p][i] = "Seal"

(* the 86 bytes written before the seal *)
RecordHeader(p) ==
  SaltBytes(loc[p].saltDraw) \o BigEndian4(Limit(args[p]).r) \o <<65>>
    \o PublicKeyBytes(loc[p].appServerPrivateKey)

(* C15: from the call to the return of Send, on every path, the message
   bytes of the caller, the Subscription and the Config stay what they were
   when Send was called; the seal writes only the record buffer from offset
   86 on: the 86 header bytes stay as written and the message buffer of the
   caller keeps the plaintext. *)
C15_InputsUnchanged ==
  /\ [](\A p \in Procs :
         /\ pc[p] # "idle" => BufBytes(mem[MessageAddr(p)]) = args[p].message
         /\ Sealed(p) =>
              /\ Cap(mem[RecordAddr(p)]) = minOverhead + Len(args[p].message)
              /\ SubSeq(mem[RecordAddr(p)].arr, 1, headerLen) = RecordHeader(p))
  /\ [][\A p \in Procs :
          (pc[p] # "idle" /\ pc'[p] # "idle")
            => (args'[p] = args[p] /\ mem'[MessageAddr(p)] = mem[MessageAddr(p)])]_vars

C15_Witness ==
  /\ pc[1] = "done"
  /\ ret[1].err = NoErr
  /\ Sealed(1)
  /\ Len(args[1].message) = 2
  /\ BufBytes(mem[MessageAddr(1)]) = args[1].message
  /\ SubSeq(mem[RecordAddr(1)].arr, headerLen + 1, headerLen + 2) # args[1].message

====
